---- MODULE Spec2Model ----
(***************************************************************************)
(* The p5 background sketch of src/src/components/BackgroundP5/index.tsx:  *)
(* a grid of entities pulled toward the mouse and back to their anchors,   *)
(* the draw loop with its pause and resume slots, and the debounced grid   *)
(* rebuild on window resize.                                               *)
(*                                                                         *)
(* Numbers.  JavaScript numbers are modelled in fixed point: a length is   *)
(* an integer count of 1/Scale pixel, a dimensionless factor an integer    *)
(* count of 1/One.  Products are truncated toward zero.  Math.sqrt and     *)
(* Math.pow are computed to that resolution (integer square root, integer  *)
(* n-th root by bisection, repeated multiplication).  A vector carries a   *)
(* flag nan: 0/0 in calculateGravity gives NaN on both axes, and every     *)
(* later operation on that entity keeps both axes NaN.                     *)
(***************************************************************************)
EXTENDS Integers, Sequences, FiniteSets

\* ------------------------------------------------------------- bounds

\* Fixed-point resolution: length units per pixel.
Scale == 10

\* Frames drawn in one behaviour (p5's frameCount is unbounded).
MaxFrames == 2

\* Milliseconds of one step of the clock.
TickMs == 125

\* Resize events counted in one burst (the count saturates here).
MaxBurst == 2

\* Runs of one useAsyncEffect effect in one behaviour.
MaxRuns == 3

\* Sketches made (new p5(sketch)) in one behaviour.
MaxSketches == 2

\* Milliseconds of one step of the clock of useMouseStagnant.
StagnantTickMs == 25

\* ------------------------------------------------------------ settings

\* settings.columns and settings.rows are 80 and 40 in the source; the model
\* keeps the grid small.
columns == 2
rows == 2

dotSize == 4
maxGravForce == 12
maxEllasticForce == 20
columnGap == 10
rowGap == 10

\* _.debounce(createEntities, 250)
DebounceWait == 250

\* useMouseStagnant(1000) in BackgroundP5
timout == 1000

\* setInterval(..., 100) in useMouseStagnant
IntervalMs == 100

\* useMousePosition(50, ...) in useMouseStagnant: the wait of _.throttle
ThrottleWait == 50

\* The id of a timeout when none is pending.
NoTimer == 0 - 1

\* -------------------------------------------------------- fixed point

\* Resolution of dimensionless factors.
One == 1000 * Scale

\* Largest factor kept (Math.pow results beyond it saturate).
CapFix == 10000 * One

Abs(a) == IF a < 0 THEN -a ELSE a

Min(a, b) == IF a < b THEN a ELSE b

Max(a, b) == IF a > b THEN a ELSE b

\* a / b for b > 0, truncated toward zero.
TDiv(a, b) == IF a < 0 THEN -((-a) \div b) ELSE a \div b

\* clamp(v, lo, hi) of @/lib/utils.
clamp(v, lo, hi) == Min(Max(v, lo), hi)

\* The product of two factors a, b in 0..CapFix (each a count of 1/One),
\* saturating at CapFix.
MulFix(a, b) ==
    LET ah == a \div One
        al == a % One
        bh == b \div One
        bl == b % One
    IN IF ah * bh >= CapFix \div One
       THEN CapFix
       ELSE Min(ah * bh * One + ah * bl + al * bh + (al * bl) \div One, CapFix)

RECURSIVE PowInt(_, _)
\* base^n for a factor base and an integer n >= 0, by squaring.
PowInt(base, n) ==
    IF n = 0 THEN One
    ELSE LET half == PowInt(base, n \div 2)
             square == MulFix(half, half)
         IN IF n % 2 = 1 THEN MulFix(square, base) ELSE square

RECURSIVE RootSearch(_, _, _, _)
\* The largest r in lo..hi with r^n <= v (lo^n <= v is given).
RootSearch(v, n, lo, hi) ==
    IF lo >= hi THEN lo
    ELSE LET mid == (lo + hi + 1) \div 2
         IN IF PowInt(mid, n) <= v
            THEN RootSearch(v, n, mid, hi)
            ELSE RootSearch(v, n, lo, mid - 1)

\* v^(1/n) for a factor v.
NthRoot(v, n) == RootSearch(v, n, 0, 2 * One)

RECURSIVE SqrtSearch(_, _, _)
SqrtSearch(n, lo, hi) ==
    IF lo >= hi THEN lo
    ELSE LET mid == (lo + hi + 1) \div 2
         IN IF mid * mid <= n
            THEN SqrtSearch(n, mid, hi)
            ELSE SqrtSearch(n, lo, mid - 1)

\* Math.sqrt on a squared length: the result is a length.
Sqrt(n) == SqrtSearch(n, 0, 46340)

\* Math.pow(base, e/n) for a factor base, its n-th root step and e >= 0: the
\* whole part of the exponent by repeated multiplication, the rest by the root.
PowFrac(base, step, e, n) ==
    MulFix(PowInt(base, e \div n), PowInt(step, e % n))

\* dampingStrength = 0.95 of applyAnchorDamping, and 0.95^(1/Scale).
dampingStrength == (95 * One) \div 100
dampingStep == NthRoot(dampingStrength, Scale)

\* The base 1.7 of calculateElasticity, and 1.7^(1/(2*Scale)).
elasticBase == (17 * One) \div 10
elasticStep == NthRoot(elasticBase, 2 * Scale)

\* ------------------------------------------------------------- vectors

\* p.createVector(x, y)
createVector(x, y) == [x |-> x, y |-> y, nan |-> FALSE]

\* The vector whose two components are NaN.
NaNVec == [x |-> 0, y |-> 0, nan |-> TRUE]

\* p5.Vector.add
VAdd(a, b) ==
    IF a.nan \/ b.nan THEN NaNVec ELSE createVector(a.x + b.x, a.y + b.y)

\* p5.Vector.mult by a factor f (a count of 1/One; NaN when fnan)
VMult(a, f, fnan) ==
    IF a.nan \/ fnan THEN NaNVec
    ELSE createVector(TDiv(a.x * f, One), TDiv(a.y * f, One))

\* p5.Vector.dist, for two vectors that are not NaN
VDist(a, b) == Sqrt((b.x - a.x) * (b.x - a.x) + (b.y - a.y) * (b.y - a.y))

\* -------------------------------------------------------------- forces

\* G * m1 * m2 / Math.pow(distance, 1.05), for distance > 0, as a length.
\* distance^1.05 = distance * distance^(1/20).
GravityMagnitude(distance) ==
    LET G == 1000
        root == NthRoot((distance * One) \div Scale, 20)
    IN TDiv(TDiv(G * Scale * Scale * One, Max(root, 1)), distance)

calculateGravity(point1, point2) ==
    IF point1.nan \/ point2.nan THEN NaNVec
    ELSE LET dx == point2.x - point1.x
             dy == point2.y - point1.y
             distance == Sqrt(dx * dx + dy * dy)
         IN IF distance = 0
            THEN NaNVec  \* ux = uy = 0 / 0
            ELSE LET forceMagnitude == GravityMagnitude(distance)
                     fx == clamp(TDiv(forceMagnitude * dx, distance),
                                 -maxGravForce * Scale, maxGravForce * Scale)
                     fy == clamp(TDiv(forceMagnitude * dy, distance),
                                 -maxGravForce * Scale, maxGravForce * Scale)
                 IN createVector(fx, fy)

\* Math.pow(1.7, 0.5 * distance - 2) as a factor.
ElasticPow(distance) ==
    LET e == distance - 4 * Scale
    IN IF e >= 0 THEN PowFrac(elasticBase, elasticStep, e, 2 * Scale)
       ELSE (One * One) \div PowFrac(elasticBase, elasticStep, -e, 2 * Scale)

\* The force magnitude of calculateElasticity, as a length.
ElasticMagnitude(distance) ==
    IF distance * 100 <= 262 * Scale
    THEN Abs(distance)
    ELSE (ElasticPow(distance) * Scale) \div One + 2 * Scale

\* calculateElasticity without its rule for distance 0: the direction is
\* 0 / 0 there, as in calculateGravity.
calculateElasticityUnguarded(point1, point2) ==
    IF point1.nan \/ point2.nan THEN NaNVec
    ELSE LET dx == point2.x - point1.x
             dy == point2.y - point1.y
             distance == Sqrt(dx * dx + dy * dy)
             forceMagnitude == ElasticMagnitude(distance)
         IN IF distance = 0
            THEN NaNVec
            ELSE createVector(
                    clamp(TDiv(forceMagnitude * dx, distance),
                          -maxEllasticForce * Scale, maxEllasticForce * Scale),
                    clamp(TDiv(forceMagnitude * dy, distance),
                          -maxEllasticForce * Scale, maxEllasticForce * Scale))

calculateElasticity(point1, point2) ==
    IF point1.nan \/ point2.nan THEN NaNVec
    ELSE LET dx == point2.x - point1.x
             dy == point2.y - point1.y
             distance == Sqrt(dx * dx + dy * dy)
             forceMagnitude == ElasticMagnitude(distance)
             fx == IF distance # 0
                   THEN clamp(TDiv(forceMagnitude * dx, distance),
                              -maxEllasticForce * Scale, maxEllasticForce * Scale)
                   ELSE 0
             fy == IF distance # 0
                   THEN clamp(TDiv(forceMagnitude * dy, distance),
                              -maxEllasticForce * Scale, maxEllasticForce * Scale)
                   ELSE 0
         IN createVector(fx, fy)

\* -------------------------------------------------------------- Entity

\* new Entity(position, debug)
Entity(position, debug) ==
    [position |-> createVector(position.x, position.y),
     velocity |-> createVector(0, 0),
     anchor   |-> createVector(position.x, position.y),
     debug    |-> debug]

applyForce(e, force) == [e EXCEPT !.velocity = VAdd(e.velocity, force)]

\* Math.pow(dampingStrength, safeDistance) of applyAnchorDamping, for an
\* entity whose position is not NaN.
AnchorDampingFactor(e) ==
    LET minDistance == 8
        safeDistance == Max(VDist(e.position, e.anchor), minDistance * Scale)
    IN PowFrac(dampingStrength, dampingStep, safeDistance, Scale)

applyAnchorDamping(e) ==
    IF e.position.nan
    THEN [e EXCEPT !.velocity = NaNVec]
    ELSE [e EXCEPT !.velocity = VMult(e.velocity, AnchorDampingFactor(e), FALSE)]

\* clamp(0.05 * distance + 0.0, 0, 1) of applyMouseDamping.
MouseDampingFactor(distance) == clamp((5 * One * distance) \div (100 * Scale), 0, One)

\* applyMouseDamping returning early beyond 10 pixels instead of 30.
applyMouseDampingNear(e, mousePoint) ==
    IF e.position.nan \/ mousePoint.nan
    THEN [e EXCEPT !.velocity = NaNVec]
    ELSE LET distance == VDist(e.position, mousePoint)
         IN IF distance > 10 * Scale
            THEN e
            ELSE [e EXCEPT !.velocity =
                      VMult(e.velocity, MouseDampingFactor(distance), FALSE)]

applyMouseDamping(e, mousePoint) ==
    IF e.position.nan \/ mousePoint.nan
    THEN [e EXCEPT !.velocity = NaNVec]  \* NaN > 30 is false
    ELSE LET distance == VDist(e.position, mousePoint)
         IN IF distance > 30 * Scale
            THEN e
            ELSE [e EXCEPT !.velocity =
                      VMult(e.velocity, MouseDampingFactor(distance), FALSE)]

\* applyVelocity on an entity whose anchor is the vector its position is.
applyVelocityShared(e) ==
    [e EXCEPT !.position = VAdd(e.position, e.velocity),
              !.anchor = VAdd(e.position, e.velocity)]

applyVelocity(e) == [e EXCEPT !.position = VAdd(e.position, e.velocity)]

\* ---------------------------------------------------------------- grid

\* GridEntity with the debug flag on all of column 0.
GridEntityDebugColumn(i, j) ==
    LET gridWidth == (columns * dotSize) + ((columns - 1) * columnGap)
        gridHeight == (rows * dotSize) + ((rows - 1) * rowGap)
        x == i * (dotSize + columnGap) * Scale - TDiv(gridWidth * Scale, 2)
        y == j * (dotSize + rowGap) * Scale - TDiv(gridHeight * Scale, 2)
    IN Entity(createVector(x, y), i = 0)

\* The entity createEntities pushes for column i and row j.
GridEntity(i, j) ==
    LET gridWidth == (columns * dotSize) + ((columns - 1) * columnGap)
        gridHeight == (rows * dotSize) + ((rows - 1) * rowGap)
        x == i * (dotSize + columnGap) * Scale - TDiv(gridWidth * Scale, 2)
        y == j * (dotSize + rowGap) * Scale - TDiv(gridHeight * Scale, 2)
    IN Entity(createVector(x, y), i = 0 /\ j = 0)

\* createEntities(): the new entities array, column by column.
createEntities ==
    [k \in 1..(columns * rows) |-> GridEntity((k - 1) \div rows, (k - 1) % rows)]

\* ---------------------------------------------------------------- draw

\* The mousePosition of p.draw: <<>> is null.
MousePosition(mouseX, mouseY, windowWidth, windowHeight) ==
    IF mouseX # 0 /\ mouseY # 0
    THEN << createVector(mouseX * Scale - TDiv(windowWidth * Scale, 2),
                         mouseY * Scale - TDiv(windowHeight * Scale, 2)) >>
    ELSE << >>

\* The loop body of p.draw with applyVelocity called first: the forces and
\* the dampings see the position after the integration.
DrawEntityIntegrateFirst(entity, mousePosition) ==
    LET e0 == applyVelocity(entity)
        e1 == IF mousePosition # << >>
              THEN applyForce(e0, calculateGravity(e0.position, mousePosition[1]))
              ELSE e0
        e2 == applyForce(e1, calculateElasticity(e1.position, e1.anchor))
        e3 == applyAnchorDamping(e2)
    IN IF mousePosition # << >>
       THEN applyMouseDamping(e3, mousePosition[1])
       ELSE e3

\* One pass of the loop body of p.draw over an entity.
DrawEntity(entity, mousePosition) ==
    LET e1 == IF mousePosition # << >>
              THEN applyForce(entity,
                       calculateGravity(entity.position, mousePosition[1]))
              ELSE entity
        e2 == applyForce(e1, calculateElasticity(e1.position, e1.anchor))
        e3 == applyAnchorDamping(e2)
        e4 == IF mousePosition # << >>
              THEN applyMouseDamping(e3, mousePosition[1])
              ELSE e3
    IN applyVelocity(e4)

\* p.draw(): the entities after one frame.
DrawFrame(ents, m, w) ==
    [i \in DOMAIN ents |->
        DrawEntity(ents[i], MousePosition(m.x, m.y, w.width, w.height))]

\* --------------------------------------------------------------- state

VARIABLES
    created,      \* created.current of BackgroundP5: new p5(sketch) has run
    setupDone,    \* p.setup has run
    pauseFn,      \* the module's pauseFn slot: "noop" or "noLoop"
    resumeFn,     \* the module's resumeFn slot: "noop" or "loop"
    looping,      \* whether p5 schedules frames (loop / noLoop)
    entities,     \* the sketch's entities array
    mouse,        \* p.mouseX, p.mouseY, in pixels
    window,       \* p.windowWidth, p.windowHeight, in pixels
    timerId,      \* the debounce's timeout: ms left, or NoTimer
    lastCallAge,  \* ms since createEntitiesThrottled was last called
    burst,        \* calls of createEntitiesThrottled in the burst under way,
                  \* or in the last one (a history of the calls)
    frameCount,   \* frames drawn
    step          \* the handler that ran last

\* The arguments and the result of a force function called on its own.
VARIABLES
    point1,       \* the first argument
    point2,       \* the second argument
    force         \* the vector returned

\* The state of the sketch and of its debounce.
sketchVars == << created, setupDone, pauseFn, resumeFn, looping, entities,
                mouse, window, timerId, lastCallAge, burst, frameCount >>

probeVars == << point1, point2, force >>

\* The effect runs of a component that calls useAsyncEffect (hooks.ts).
VARIABLES
    runs          \* one record per run of the effect, oldest first: its
                  \* locals cancelled and cleanup (TRUE when it holds the
                  \* function), how the promise of fn settled, and how many
                  \* times the function it resolved with has been called

asyncVars == << runs >>

\* A component that calls useMouseStagnant (hooks.ts), and the mouse.
VARIABLES
    isStagnant,        \* the state useMouseStagnant returns
    sinceLastMove,     \* Date.now() - lastMove.current, in ms
    sinceMouseMoved,   \* ms since the mouse last moved, or StagnantCap
    intervalLeft,      \* ms until the setInterval callback runs
    throttleTimer,     \* the timeout of _.throttle: ms left, or NoTimer
    throttleCallAge,   \* ms since the throttled handler was last called
    throttleInvokeAge, \* ms since handleMouseMove was last invoked
    throttleArgs       \* a call of the throttled handler waits for the timeout

stagnantVars == << isStagnant, sinceLastMove, sinceMouseMoved, intervalLeft,
                  throttleTimer, throttleCallAge, throttleInvokeAge,
                  throttleArgs >>

\* BackgroundP5 over mounts and unmounts, and every sketch ever made.
VARIABLES
    mounted,      \* a BackgroundP5 is mounted
    createdRef,   \* created.current of the mounted component
    isVisible,    \* the state useIsVisible returns
    effectDeps,   \* the isPaused the pause effect last ran for, or "none"
    sketches,     \* one record per new p5(sketch), oldest first: setupDone,
                  \* looping (p5 schedules its frames), frames it has drawn
    slotOwner     \* the sketch whose noLoop and loop the module's pauseFn and
                  \* resumeFn call; 0 when they are the first no-ops

lifeVars == << mounted, createdRef, isVisible, effectDeps, sketches, slotOwner >>

\* The state outside the sketch, which no handler of the sketch touches.
outsideSketch == << probeVars, asyncVars, stagnantVars, lifeVars >>

vars == << sketchVars, step, outsideSketch >>

\* No force function is being called on its own.
ProbeIdle ==
    /\ point1 = createVector(0, 0)
    /\ point2 = createVector(0, 0)
    /\ force = createVector(0, 0)

\* No effect has run.
AsyncIdle == runs = << >>

\* Ages of events that are too old to count saturate here.
StagnantCap == timout + IntervalMs + ThrottleWait

\* useMouseStagnant as its component mounts, the mouse at rest for long.
StagnantIdle ==
    /\ isStagnant = FALSE
    /\ sinceLastMove = 0
    /\ sinceMouseMoved = StagnantCap
    /\ intervalLeft = IntervalMs
    /\ throttleTimer = NoTimer
    /\ throttleCallAge = ThrottleWait
    /\ throttleInvokeAge = ThrottleWait
    /\ throttleArgs = FALSE

\* No BackgroundP5 has been mounted.
LifeIdle ==
    /\ mounted = FALSE
    /\ createdRef = FALSE
    /\ isVisible = FALSE
    /\ effectDeps = "none"
    /\ sketches = << >>
    /\ slotOwner = 0

OutsideSketchIdle == ProbeIdle /\ AsyncIdle /\ StagnantIdle /\ LifeIdle

\* The values mouseX, mouseY take: no data yet, on the left edge, on the top
\* edge, and two points inside the window.
MousePoints ==
    { [x |-> 0, y |-> 0], [x |-> 0, y |-> 24], [x |-> 33, y |-> 0],
      [x |-> 33, y |-> 24] }

\* The window sizes a resize leads to.
WindowSizes == { [width |-> 60, height |-> 40], [width |-> 48, height |-> 40] }

\* The clock no longer counts past this age of the last call.
AgeCap == DebounceWait + TickMs

Init ==
    /\ created = FALSE
    /\ setupDone = FALSE
    /\ pauseFn = "noop"
    /\ resumeFn = "noop"
    /\ looping = TRUE
    /\ entities = << >>
    /\ mouse = [x |-> 0, y |-> 0]
    /\ window = [width |-> 60, height |-> 40]
    /\ timerId = NoTimer
    /\ lastCallAge = AgeCap
    /\ burst = 0
    /\ frameCount = 0
    /\ step = "init"
    /\ OutsideSketchIdle

\* The creation effect of BackgroundP5: new p5(sketch).
Mount ==
    /\ ~created
    /\ created' = TRUE
    /\ step' = "mount"
    /\ UNCHANGED outsideSketch
    /\ UNCHANGED << setupDone, pauseFn, resumeFn, looping, entities, mouse,
                    window, timerId, lastCallAge, burst, frameCount >>

\* p.setup ending with p.noLoop().
SetupPaused ==
    /\ created
    /\ ~setupDone
    /\ setupDone' = TRUE
    /\ entities' = createEntities
    /\ pauseFn' = "noLoop"
    /\ resumeFn' = "loop"
    /\ looping' = FALSE
    /\ step' = "setup"
    /\ UNCHANGED outsideSketch
    /\ UNCHANGED << created, mouse, window, timerId, lastCallAge, burst,
                    frameCount >>

\* p.setup
Setup ==
    /\ created
    /\ ~setupDone
    /\ setupDone' = TRUE
    /\ entities' = createEntities
    /\ pauseFn' = "noLoop"
    /\ resumeFn' = "loop"
    /\ step' = "setup"
    /\ UNCHANGED outsideSketch
    /\ UNCHANGED << created, looping, mouse, window, timerId, lastCallAge,
                    burst, frameCount >>

\* p.draw called for a frame whether or not the loop is paused.
DrawAlways ==
    /\ setupDone
    /\ frameCount < MaxFrames
    /\ entities' = DrawFrame(entities, mouse, window)
    /\ frameCount' = frameCount + 1
    /\ step' = "draw"
    /\ UNCHANGED outsideSketch
    /\ UNCHANGED << created, setupDone, pauseFn, resumeFn, looping, mouse,
                    window, timerId, lastCallAge, burst >>

\* p.draw, called by p5 for the next frame of the loop.
Draw ==
    /\ setupDone
    /\ looping
    /\ frameCount < MaxFrames
    /\ entities' = DrawFrame(entities, mouse, window)
    /\ frameCount' = frameCount + 1
    /\ step' = "draw"
    /\ UNCHANGED outsideSketch
    /\ UNCHANGED << created, setupDone, pauseFn, resumeFn, looping, mouse,
                    window, timerId, lastCallAge, burst >>

\* pauseFn() that toggles the loop.
PauseToggle ==
    /\ created
    /\ looping' = IF pauseFn = "noLoop" THEN ~looping ELSE looping
    /\ step' = "pause"
    /\ UNCHANGED outsideSketch
    /\ UNCHANGED << created, setupDone, pauseFn, resumeFn, entities, mouse,
                    window, timerId, lastCallAge, burst, frameCount >>

\* pauseFn(): p.noLoop() once p.setup has stored it.
Pause ==
    /\ created
    /\ looping' = IF pauseFn = "noLoop" THEN FALSE ELSE looping
    /\ step' = "pause"
    /\ UNCHANGED outsideSketch
    /\ UNCHANGED << created, setupDone, pauseFn, resumeFn, entities, mouse,
                    window, timerId, lastCallAge, burst, frameCount >>

\* resumeFn(): p.loop() once p.setup has stored it.
Resume ==
    /\ created
    /\ looping' = IF resumeFn = "loop" THEN TRUE ELSE looping
    /\ step' = "resume"
    /\ UNCHANGED outsideSketch
    /\ UNCHANGED << created, setupDone, pauseFn, resumeFn, entities, mouse,
                    window, timerId, lastCallAge, burst, frameCount >>

\* The pause effect of BackgroundP5, run for a value of isPaused.
PauseEffect == \E isPaused \in BOOLEAN : IF isPaused THEN Pause ELSE Resume

\* The mouse moves: p5 updates mouseX and mouseY.
MouseMoved ==
    /\ created
    /\ \E m \in MousePoints : mouse' = m
    /\ mouse' # mouse
    /\ step' = "mouseMoved"
    /\ UNCHANGED outsideSketch
    /\ UNCHANGED << created, setupDone, pauseFn, resumeFn, looping, entities,
                    window, timerId, lastCallAge, burst, frameCount >>

\* The debounced function is called: the wait starts again from now.
DebouncedCall ==
    /\ lastCallAge' = 0
    /\ timerId' = IF timerId = NoTimer THEN DebounceWait ELSE timerId
    /\ burst' = IF timerId = NoTimer THEN 1 ELSE Min(burst + 1, MaxBurst)

\* p.windowResized: resizeCanvas, which once p.setup has made the canvas
\* redraws it (its noRedraw argument is not given), then
\* createEntitiesThrottled().
WindowResized ==
    /\ created
    /\ frameCount < MaxFrames
    /\ \E w \in WindowSizes : window' = w
    /\ window' # window
    /\ entities' = IF setupDone THEN DrawFrame(entities, mouse, window')
                               ELSE entities
    /\ frameCount' = IF setupDone THEN frameCount + 1 ELSE frameCount
    /\ DebouncedCall
    /\ step' = "windowResized"
    /\ UNCHANGED outsideSketch
    /\ UNCHANGED << created, setupDone, pauseFn, resumeFn, looping, mouse >>

\* TickMs pass; a timeout that is due runs before more time passes.
Tick ==
    /\ timerId # 0
    /\ lastCallAge < AgeCap
    /\ lastCallAge' = Min(lastCallAge + TickMs, AgeCap)
    /\ timerId' = IF timerId = NoTimer THEN NoTimer ELSE Max(timerId - TickMs, 0)
    /\ step' = "tick"
    /\ UNCHANGED outsideSketch
    /\ UNCHANGED << created, setupDone, pauseFn, resumeFn, looping, entities,
                    mouse, window, burst, frameCount >>

\* The debounce's timeout runs after a call less than the wait ago: it waits
\* for the rest.
TimerRestart ==
    /\ timerId = 0
    /\ lastCallAge < DebounceWait
    /\ timerId' = DebounceWait - lastCallAge
    /\ step' = "timerRestart"
    /\ UNCHANGED outsideSketch
    /\ UNCHANGED << created, setupDone, pauseFn, resumeFn, looping, entities,
                    mouse, window, lastCallAge, burst, frameCount >>

\* The timeout runs createEntities() however recent the last call is.
TrailingEdgeEarly ==
    /\ timerId = 0
    /\ timerId' = NoTimer
    /\ entities' = createEntities
    /\ step' = "createEntities"
    /\ UNCHANGED outsideSketch
    /\ UNCHANGED << created, setupDone, pauseFn, resumeFn, looping, mouse,
                    window, lastCallAge, burst, frameCount >>

\* The timeout's createEntities() giving each new entity the velocity of the
\* entity it replaces.
TrailingEdgeKeepVelocity ==
    /\ timerId = 0
    /\ lastCallAge >= DebounceWait
    /\ timerId' = NoTimer
    /\ entities' = [i \in DOMAIN createEntities |->
                       IF i \in DOMAIN entities
                       THEN [createEntities[i] EXCEPT
                                !.velocity = entities[i].velocity]
                       ELSE createEntities[i]]
    /\ step' = "createEntities"
    /\ UNCHANGED outsideSketch
    /\ UNCHANGED << created, setupDone, pauseFn, resumeFn, looping, mouse,
                    window, lastCallAge, burst, frameCount >>

\* The debounce's timeout runs the wait after the last call: createEntities().
TrailingEdge ==
    /\ timerId = 0
    /\ lastCallAge >= DebounceWait
    /\ timerId' = NoTimer
    /\ entities' = createEntities
    /\ step' = "createEntities"
    /\ UNCHANGED outsideSketch
    /\ UNCHANGED << created, setupDone, pauseFn, resumeFn, looping, mouse,
                    window, lastCallAge, burst, frameCount >>

Next ==
    \/ Mount
    \/ Setup
    \/ Draw
    \/ PauseEffect
    \/ MouseMoved
    \/ WindowResized
    \/ Tick
    \/ TimerRestart
    \/ TrailingEdge

Spec == Init /\ [][Next]_vars

\* ------------------------------------------------- the Entity methods

\* The mouse of the Entity specification, and the positions an entity is
\* placed at: at distances 0, 5, 19, 20, 20, 25, 30, 31 and 40 pixels from
\* where that mouse is on the canvas (3, 4).
ProbeMouse == [x |-> 33, y |-> 24]

ProbePositions ==
    { createVector(px[1] * Scale, px[2] * Scale) :
        px \in { <<3, 4>>, <<8, 4>>, <<22, 4>>, <<23, 4>>, <<15, 20>>,
                 <<28, 4>>, <<21, 28>>, <<34, 4>>, <<43, 4>> } }

ProbeVelocities ==
    { createVector(vx, vy) : vx \in {0, 35, -120}, vy \in {0, 35, -120} }

\* The grid after setup, with a position and a velocity given to its first
\* entity.
EntityInit ==
    /\ created = TRUE
    /\ setupDone = TRUE
    /\ pauseFn = "noLoop"
    /\ resumeFn = "loop"
    /\ looping = FALSE
    /\ \E pos \in ProbePositions, vel \in ProbeVelocities :
          entities = [createEntities EXCEPT ![1].position = pos,
                                            ![1].velocity = vel]
    /\ mouse = ProbeMouse
    /\ window = [width |-> 60, height |-> 40]
    /\ timerId = NoTimer
    /\ lastCallAge = AgeCap
    /\ burst = 0
    /\ frameCount = 0
    /\ step = "init"
    /\ OutsideSketchIdle

\* The mouse point p.draw hands to applyMouseDamping.
MousePoint == MousePosition(mouse.x, mouse.y, window.width, window.height)[1]

\* A method called on every entity.
EntityStep(name, ents) ==
    /\ entities' = ents
    /\ step' = name
    /\ UNCHANGED outsideSketch
    /\ UNCHANGED << created, setupDone, pauseFn, resumeFn, looping, mouse,
                    window, timerId, lastCallAge, burst, frameCount >>

CallApplyAnchorDamping ==
    EntityStep("applyAnchorDamping",
               [i \in DOMAIN entities |-> applyAnchorDamping(entities[i])])

CallApplyMouseDamping ==
    EntityStep("applyMouseDamping",
               [i \in DOMAIN entities |-> applyMouseDamping(entities[i], MousePoint)])

EntityNext ==
    \/ CallApplyAnchorDamping
    \/ CallApplyMouseDamping

EntitySpec == EntityInit /\ [][EntityNext]_vars

\* -------------------------------------------------- the force functions

\* The sketch before the component is mounted.
SketchIdle ==
    /\ created = FALSE
    /\ setupDone = FALSE
    /\ pauseFn = "noop"
    /\ resumeFn = "noop"
    /\ looping = TRUE
    /\ entities = << >>
    /\ mouse = [x |-> 0, y |-> 0]
    /\ window = [width |-> 60, height |-> 40]
    /\ timerId = NoTimer
    /\ lastCallAge = AgeCap
    /\ burst = 0
    /\ frameCount = 0

\* The points the force functions are called on, in pixels: at distances 0,
\* 1, 2, 5, about 14, 100 and more from each other, along an axis and not.
ForcePoints ==
    { createVector(px[1] * Scale, px[2] * Scale) :
        px \in { <<0, 0>>, <<1, 0>>, <<0, 2>>, <<3, 4>>, <<10, 10>>,
                 <<0 - 9, 0 - 9>>, <<0, 100>>, <<60, 80>> } }

ForceInit ==
    /\ SketchIdle
    /\ step = "init"
    /\ point1 \in ForcePoints
    /\ point2 \in ForcePoints
    /\ force = createVector(0, 0)
    /\ AsyncIdle
    /\ StagnantIdle
    /\ LifeIdle

CallCalculateGravity ==
    /\ force' = calculateGravity(point1, point2)
    /\ step' = "calculateGravity"
    /\ UNCHANGED << sketchVars, point1, point2, asyncVars, stagnantVars,
                    lifeVars >>

CallCalculateElasticity ==
    /\ force' = calculateElasticity(point1, point2)
    /\ step' = "calculateElasticity"
    /\ UNCHANGED << sketchVars, point1, point2, asyncVars, stagnantVars,
                    lifeVars >>

ForceNext ==
    \/ CallCalculateGravity
    \/ CallCalculateElasticity

ForceSpec == ForceInit /\ [][ForceNext]_vars

\* ------------------------------------------------------ useAsyncEffect

\* The ways the promise fn returns settles: with a cleanup function, with
\* nothing, or rejected.
Settlements == {"cleanup", "void", "rejected"}

AsyncInit ==
    /\ SketchIdle
    /\ step = "init"
    /\ ProbeIdle
    /\ AsyncIdle
    /\ StagnantIdle
    /\ LifeIdle

\* React runs the effect, at mount or when deps changed, after the cleanup
\* of the run before: cancelled = false, cleanup = null, fn is called.
RunEffect ==
    /\ Len(runs) < MaxRuns
    /\ \A i \in DOMAIN runs : runs[i].cancelled
    /\ runs' = Append(runs, [cancelled |-> FALSE, cleanup |-> FALSE,
                             promise |-> "pending", calls |-> 0])
    /\ step' = "effect"
    /\ UNCHANGED << sketchVars, probeVars, stagnantVars, lifeVars >>

\* The .then callback that stores fnCleanup whether or not the run is
\* cancelled.
PromiseThenStore(i, fnCleanup) ==
    /\ runs[i].promise = "pending"
    /\ runs' = [runs EXCEPT ![i].promise = IF fnCleanup THEN "cleanup" ELSE "void",
                            ![i].cleanup = fnCleanup]
    /\ step' = "then"
    /\ UNCHANGED << sketchVars, probeVars, stagnantVars, lifeVars >>

\* The .then callback of run i: the promise resolved, with a function when
\* fnCleanup.
PromiseThen(i, fnCleanup) ==
    /\ runs[i].promise = "pending"
    /\ runs' = [runs EXCEPT
                  ![i].promise = IF fnCleanup THEN "cleanup" ELSE "void",
                  ![i].calls = IF runs[i].cancelled /\ fnCleanup
                               THEN runs[i].calls + 1 ELSE runs[i].calls,
                  ![i].cleanup = IF runs[i].cancelled /\ fnCleanup
                                 THEN runs[i].cleanup ELSE fnCleanup]
    /\ step' = "then"
    /\ UNCHANGED << sketchVars, probeVars, stagnantVars, lifeVars >>

\* The .catch of run i: the promise rejected, console.warn.
PromiseCatch(i) ==
    /\ runs[i].promise = "pending"
    /\ runs' = [runs EXCEPT ![i].promise = "rejected"]
    /\ step' = "catch"
    /\ UNCHANGED << sketchVars, probeVars, stagnantVars, lifeVars >>

\* The function the effect returned, which React calls once, when deps
\* change or at unmount.
EffectCleanup(i) ==
    /\ ~runs[i].cancelled
    /\ runs' = [runs EXCEPT
                  ![i].cancelled = TRUE,
                  ![i].calls = IF runs[i].cleanup
                               THEN runs[i].calls + 1 ELSE runs[i].calls,
                  ![i].cleanup = FALSE]
    /\ step' = "cleanup"
    /\ UNCHANGED << sketchVars, probeVars, stagnantVars, lifeVars >>

AsyncNext ==
    \/ RunEffect
    \/ \E i \in DOMAIN runs, fnCleanup \in BOOLEAN : PromiseThen(i, fnCleanup)
    \/ \E i \in DOMAIN runs : PromiseCatch(i)
    \/ \E i \in DOMAIN runs : EffectCleanup(i)

AsyncSpec == AsyncInit /\ [][AsyncNext]_vars

\* ------------------------------------------- BackgroundP5 over mounts

\* The state of useMouseStagnant other than the value it returns.
stagnantInner == << sinceLastMove, sinceMouseMoved, intervalLeft,
                   throttleTimer, throttleCallAge, throttleInvokeAge,
                   throttleArgs >>

\* isPaused of BackgroundP5 for given values of the two signals.
IsPaused(visible, stagnant) == ~visible \/ stagnant

\* The value of the pause effect's dependency, as effectDeps keeps it.
DepsOf(paused) == IF paused THEN "paused" ELSE "running"

\* pauseFn() for the slot as owner gives it: p.noLoop() of that sketch.
pauseFnCall(sk, owner) ==
    IF owner = 0 THEN sk ELSE [sk EXCEPT ![owner].looping = FALSE]

\* resumeFn() for the slot as owner gives it: p.loop() of that sketch.
resumeFnCall(sk, owner) ==
    IF owner = 0 THEN sk ELSE [sk EXCEPT ![owner].looping = TRUE]

\* The body of the pause effect.
PauseEffectBody(sk, owner, paused) ==
    IF paused THEN pauseFnCall(sk, owner) ELSE resumeFnCall(sk, owner)

\* new p5(sketch); p5 calls p.setup at once when the document has loaded
\* (sync) and on the window's load event if not.
NewSketch(sync) == [setupDone |-> sync, looping |-> TRUE, frames |-> 0]

LifeInit ==
    /\ SketchIdle
    /\ step = "init"
    /\ ProbeIdle
    /\ AsyncIdle
    /\ StagnantIdle
    /\ LifeIdle

\* A BackgroundP5 mounts: the first render (isVisible false, isStagnant
\* false, so isPaused true), then the creation effect and the pause effect.
MountComponent ==
    /\ ~mounted
    /\ Len(sketches) < MaxSketches
    /\ \E sync \in BOOLEAN :
          LET made == Append(sketches, NewSketch(sync))
              owner == IF sync THEN Len(made) ELSE slotOwner
          IN /\ sketches' = PauseEffectBody(made, owner, TRUE)
             /\ slotOwner' = owner
    /\ mounted' = TRUE
    /\ createdRef' = TRUE
    /\ isVisible' = FALSE
    /\ isStagnant' = FALSE
    /\ effectDeps' = DepsOf(TRUE)
    /\ step' = "mount"
    /\ UNCHANGED << sketchVars, probeVars, asyncVars, stagnantInner >>

\* The component unmounts: neither effect returns a function, so nothing
\* of the sketch is told.
UnmountComponent ==
    /\ mounted
    /\ mounted' = FALSE
    /\ createdRef' = FALSE
    /\ isVisible' = FALSE
    /\ isStagnant' = FALSE
    /\ effectDeps' = "none"
    /\ step' = "unmount"
    /\ UNCHANGED << sketchVars, probeVars, asyncVars, stagnantInner, sketches,
                    slotOwner >>

\* React runs the effects of the mounted component once more (as in strict
\* mode): the creation effect returns at created.current, the pause effect
\* runs for the isPaused of the last render.
RerunEffects ==
    /\ mounted
    /\ createdRef
    /\ effectDeps # "none"
    /\ sketches' = PauseEffectBody(sketches, slotOwner, effectDeps = "paused")
    /\ step' = "rerunEffects"
    /\ UNCHANGED << sketchVars, probeVars, asyncVars, stagnantVars, mounted,
                    createdRef, isVisible, effectDeps, slotOwner >>

\* p.setup of sketch i, on the load event: it stores its noLoop and loop in
\* the module's slots.
SketchSetup(i) ==
    /\ ~sketches[i].setupDone
    /\ sketches' = [sketches EXCEPT ![i].setupDone = TRUE]
    /\ slotOwner' = i
    /\ step' = "setup"
    /\ UNCHANGED << sketchVars, probeVars, asyncVars, stagnantVars, mounted,
                    createdRef, isVisible, effectDeps >>

\* p.draw of sketch i, for a frame of its loop.
SketchDraw(i) ==
    /\ sketches[i].setupDone
    /\ sketches[i].looping
    /\ sketches[i].frames < MaxFrames
    /\ sketches' = [sketches EXCEPT ![i].frames = sketches[i].frames + 1]
    /\ step' = "draw"
    /\ UNCHANGED << sketchVars, probeVars, asyncVars, stagnantVars, mounted,
                    createdRef, isVisible, effectDeps, slotOwner >>

\* The IntersectionObserver reports: setIsVisible.
IntersectionChanged ==
    /\ mounted
    /\ isVisible' = ~isVisible
    /\ step' = "intersection"
    /\ UNCHANGED << sketchVars, probeVars, asyncVars, stagnantInner,
                    isStagnant, mounted, createdRef, effectDeps, sketches,
                    slotOwner >>

\* useMouseStagnant returns the other value.
StagnantChanged ==
    /\ mounted
    /\ isStagnant' = ~isStagnant
    /\ step' = "stagnant"
    /\ UNCHANGED << sketchVars, probeVars, asyncVars, stagnantInner, lifeVars >>

\* The pause effect, which React runs after a render in which isPaused is
\* not what it was.
RunPauseEffect ==
    /\ mounted
    /\ effectDeps # DepsOf(IsPaused(isVisible, isStagnant))
    /\ sketches' = PauseEffectBody(sketches, slotOwner,
                                   IsPaused(isVisible, isStagnant))
    /\ effectDeps' = DepsOf(IsPaused(isVisible, isStagnant))
    /\ step' = "pauseEffect"
    /\ UNCHANGED << sketchVars, probeVars, asyncVars, stagnantVars, mounted,
                    createdRef, isVisible, slotOwner >>

LifeNext ==
    \/ MountComponent
    \/ UnmountComponent
    \/ RerunEffects
    \/ \E i \in DOMAIN sketches : SketchSetup(i)
    \/ \E i \in DOMAIN sketches : SketchDraw(i)
    \/ IntersectionChanged
    \/ StagnantChanged
    \/ RunPauseEffect

LifeSpec == LifeInit /\ [][LifeNext]_vars

\* ---------------------------------------------------- useMouseStagnant

\* The component mounts: lastMove = Date.now(), the interval is set, and
\* the mouse has just moved or has been at rest for long.
StagnantInit ==
    /\ SketchIdle
    /\ step = "init"
    /\ ProbeIdle
    /\ AsyncIdle
    /\ LifeIdle
    /\ isStagnant = FALSE
    /\ sinceLastMove = 0
    /\ sinceMouseMoved \in {0, StagnantCap}
    /\ intervalLeft = IntervalMs
    /\ throttleTimer = NoTimer
    /\ throttleCallAge = ThrottleWait
    /\ throttleInvokeAge = ThrottleWait
    /\ throttleArgs = FALSE

\* shouldInvoke of _.throttle (a debounce with maxWait = wait).
ThrottleShouldInvoke ==
    throttleCallAge >= ThrottleWait \/ throttleInvokeAge >= ThrottleWait

\* A mousemove event: the throttled handler is called. It invokes
\* handleMouseMove, and so the callback lastMove.current = Date.now(), when
\* the wait is over; if not, the call waits for the timeout.
MouseMoveEvent ==
    /\ sinceMouseMoved' = 0
    /\ throttleCallAge' = 0
    /\ IF ThrottleShouldInvoke
       THEN /\ throttleTimer' = ThrottleWait
            /\ throttleInvokeAge' = 0
            /\ throttleArgs' = FALSE
            /\ sinceLastMove' = 0
       ELSE /\ throttleTimer' = IF throttleTimer = NoTimer THEN ThrottleWait
                                                           ELSE throttleTimer
            /\ throttleArgs' = TRUE
            /\ UNCHANGED << throttleInvokeAge, sinceLastMove >>
    /\ step' = "mousemove"
    /\ UNCHANGED << sketchVars, probeVars, asyncVars, lifeVars, isStagnant,
                    intervalLeft >>

\* timerExpired of _.throttle: the trailing call, or the rest of the wait.
ThrottleTimerExpired ==
    /\ throttleTimer = 0
    /\ IF ThrottleShouldInvoke
       THEN /\ throttleTimer' = NoTimer
            /\ throttleArgs' = FALSE
            /\ throttleInvokeAge' = IF throttleArgs THEN 0 ELSE throttleInvokeAge
            /\ sinceLastMove' = IF throttleArgs THEN 0 ELSE sinceLastMove
       ELSE /\ throttleTimer' = Min(ThrottleWait - throttleCallAge,
                                    ThrottleWait - throttleInvokeAge)
            /\ UNCHANGED << throttleArgs, throttleInvokeAge, sinceLastMove >>
    /\ step' = "throttleTimer"
    /\ UNCHANGED << sketchVars, probeVars, asyncVars, lifeVars, isStagnant,
                    sinceMouseMoved, intervalLeft, throttleCallAge >>

\* The interval's callback setting isStagnant to true and never back.
IntervalCallbackSticky ==
    /\ intervalLeft = 0
    /\ isStagnant' = (isStagnant \/ sinceLastMove > timout)
    /\ intervalLeft' = IntervalMs
    /\ step' = "interval"
    /\ UNCHANGED << sketchVars, probeVars, asyncVars, lifeVars, sinceLastMove,
                    sinceMouseMoved, throttleTimer, throttleCallAge,
                    throttleInvokeAge, throttleArgs >>

\* The interval's callback: setIsStagnant(Date.now() - lastMove.current >
\* timout).
IntervalCallback ==
    /\ intervalLeft = 0
    /\ isStagnant' = (sinceLastMove > timout)
    /\ intervalLeft' = IntervalMs
    /\ step' = "interval"
    /\ UNCHANGED << sketchVars, probeVars, asyncVars, lifeVars, sinceLastMove,
                    sinceMouseMoved, throttleTimer, throttleCallAge,
                    throttleInvokeAge, throttleArgs >>

\* StagnantTickMs pass; a timeout or interval that is due runs before more
\* time passes.
StagnantTick ==
    /\ intervalLeft # 0
    /\ throttleTimer # 0
    /\ sinceLastMove' = Min(sinceLastMove + StagnantTickMs, StagnantCap)
    /\ sinceMouseMoved' = Min(sinceMouseMoved + StagnantTickMs, StagnantCap)
    /\ intervalLeft' = Max(intervalLeft - StagnantTickMs, 0)
    /\ throttleTimer' = IF throttleTimer = NoTimer THEN NoTimer
                        ELSE Max(throttleTimer - StagnantTickMs, 0)
    /\ throttleCallAge' = Min(throttleCallAge + StagnantTickMs, ThrottleWait)
    /\ throttleInvokeAge' = Min(throttleInvokeAge + StagnantTickMs, ThrottleWait)
    /\ step' = "tick"
    /\ UNCHANGED << sketchVars, probeVars, asyncVars, lifeVars, isStagnant,
                    throttleArgs >>

StagnantNext ==
    \/ MouseMoveEvent
    \/ ThrottleTimerExpired
    \/ IntervalCallback
    \/ StagnantTick

StagnantSpec == StagnantInit /\ [][StagnantNext]_vars

\* -------------------------------------------------------------- claims

Zero == createVector(0, 0)

\* The positions of all entities.
Positions(ents) == [i \in DOMAIN ents |-> ents[i].position]

\* An entity at rest: on its anchor, not moving.
AtRest(e) == e.position = e.anchor /\ e.velocity = Zero

\* The squared length of a vector that is not NaN.
NormSq(v) == v.x * v.x + v.y * v.y

RECURSIVE SumAnchors(_, _)
\* The sum of ents[1..n].anchor.
SumAnchors(ents, n) ==
    IF n = 0 THEN Zero ELSE VAdd(SumAnchors(ents, n - 1), ents[n].anchor)

\* C1, as stated: while the loop is paused no step changes the position of
\* an entity.
C1_PausedFreezesPositions ==
    [][~looping => Positions(entities') = Positions(entities)]_vars

\* C1, amended: while the loop is paused p.draw is not called for a frame of
\* the loop, and the entities change only in p.windowResized (the redraw of
\* resizeCanvas) or when the debounced createEntities runs.
C1_PausedOnlyResizeChanges ==
    [][~looping =>
          /\ step' # "draw"
          /\ entities' # entities => step' \in {"windowResized", "createEntities"}
      ]_vars

\* C1: the loop is paused after frames that left an entity moving, and time
\* passes.
C1_Witness ==
    /\ ~looping
    /\ step = "tick"
    /\ frameCount >= 1
    /\ \E i \in DOMAIN entities : entities[i].velocity # Zero

\* C2, as stated: createEntities runs only once 250 ms have passed since the
\* last resize, and when a resize comes 250 ms or more after the one before
\* it, the burst before it has had its rebuild.
C2_OneRebuildPerQuietBurst ==
    [][/\ step' = "createEntities" => lastCallAge >= DebounceWait
       /\ (step' = "windowResized" /\ lastCallAge >= DebounceWait)
             => timerId = NoTimer
      ]_vars

\* C2, amended: a burst is the resize events handled while the debounce's
\* timeout is pending. Only a resize starts the timeout, it is never due
\* later than 250 ms after the last event, only the rebuild ends it, and
\* that one rebuild runs only once 250 ms have passed since the last event.
C2_OneRebuildPerPendingBurst ==
    /\ [](timerId # NoTimer => burst >= 1)
    /\ [](timerId # NoTimer => timerId + lastCallAge < DebounceWait + TickMs)
    /\ [][/\ step' = "createEntities" =>
                (lastCallAge >= DebounceWait /\ timerId # NoTimer /\ timerId' = NoTimer)
          /\ (timerId # NoTimer /\ timerId' = NoTimer) => step' = "createEntities"
          /\ (timerId = NoTimer /\ timerId' # NoTimer) => step' = "windowResized"
         ]_vars

\* C2: the rebuild has run after a burst of at least two resize events.
C2_Witness ==
    /\ step = "createEntities"
    /\ setupDone
    /\ burst >= 2
    /\ timerId = NoTimer

\* C3: the loop is running or paused; it is running right after p.setup; it
\* becomes paused only in a pauseFn call and running only in a resumeFn call.
C3_TwoStates ==
    /\ [](looping \in BOOLEAN)
    /\ [][/\ step' = "setup" => looping'
          /\ (looping /\ ~looping') => step' = "pause"
          /\ (~looping /\ looping') => step' = "resume"
         ]_vars

\* C3: the loop has been paused by a pauseFn call after p.setup.
C3_Witness == setupDone /\ ~looping /\ step = "pause"

\* C4: once p.setup has stored them, pauseFn while paused and resumeFn while
\* running change nothing, and after either call the loop is as that call
\* says.
C4_Idempotent ==
    [][/\ (step' = "pause" /\ ~looping) =>
             UNCHANGED << looping, entities, timerId, lastCallAge, burst,
                          frameCount, mouse, window >>
       /\ (step' = "resume" /\ setupDone /\ looping) =>
             UNCHANGED << looping, entities, timerId, lastCallAge, burst,
                          frameCount, mouse, window >>
       /\ (step' = "pause" /\ setupDone) => ~looping'
       /\ (step' = "resume" /\ setupDone) => looping'
      ]_vars

\* C4: pauseFn has been called on a loop that drew frames.
C4_Witness == setupDone /\ ~looping /\ step = "pause" /\ frameCount >= 1

\* C5, as stated: a frame applies the gravity toward the mouse and the mouse
\* damping to every entity unless mouseX and mouseY are both 0.
C5_AbsentOnlyAtOrigin ==
    [][frameCount' # frameCount =>
          entities' =
             [i \in DOMAIN entities |->
                 DrawEntity(entities[i],
                     IF mouse.x = 0 /\ mouse.y = 0
                     THEN << >>
                     ELSE << createVector(
                                mouse.x * Scale - TDiv(window'.width * Scale, 2),
                                mouse.y * Scale - TDiv(window'.height * Scale, 2)) >>)]
      ]_vars

\* C6: after p.setup the array holds columns * rows entities, and the one
\* with the debug flag is the first, that of column 0 and row 0.
C6_GridSize ==
    setupDone =>
        /\ Len(entities) = columns * rows
        /\ {i \in DOMAIN entities : entities[i].debug} = {1}
        /\ entities[1].anchor = GridEntity(0, 0).anchor

\* C6: the debounced createEntities has rebuilt the grid after p.setup.
C6_Witness == setupDone /\ step = "createEntities"

\* C7, as stated: the anchors of the grid sum to 0 on each axis.
C7_AnchorsSumToZero ==
    setupDone => SumAnchors(entities, Len(entities)) = Zero

\* C8, as stated: the anchor damping factor grows with the distance to the
\* anchor, and is 0.95^8 up to 8 pixels.
C8_AnchorDampingGrows ==
    \A i, j \in DOMAIN entities :
        LET di == VDist(entities[i].position, entities[i].anchor)
            dj == VDist(entities[j].position, entities[j].anchor)
        IN /\ di <= dj =>
                 AnchorDampingFactor(entities[i]) <= AnchorDampingFactor(entities[j])
           /\ di <= 8 * Scale =>
                 AnchorDampingFactor(entities[i]) = PowInt(dampingStrength, 8)

\* C9, as stated: applyMouseDamping leaves the velocity as it is beyond 30
\* pixels from the mouse, and makes a velocity other than 0 shorter up to 20
\* pixels from it.
C9_DampsUpTo20 ==
    [][step' = "applyMouseDamping" =>
          \A i \in DOMAIN entities :
             LET distance == VDist(entities[i].position, MousePoint)
                 v == entities[i].velocity
             IN /\ distance > 30 * Scale => entities'[i] = entities[i]
                /\ (distance <= 20 * Scale /\ v # Zero) =>
                      NormSq(entities'[i].velocity) < NormSq(v)
      ]_vars

\* C9, amended: applyMouseDamping leaves the velocity as it is beyond 30
\* pixels from the mouse and from 20 to 30 pixels, where the factor is 1, and
\* makes a velocity other than 0 shorter below 20 pixels; it changes neither
\* the position nor the anchor.
C9_DampsBelow20 ==
    [][step' = "applyMouseDamping" =>
          \A i \in DOMAIN entities :
             LET distance == VDist(entities[i].position, MousePoint)
                 v == entities[i].velocity
             IN /\ distance >= 20 * Scale => entities'[i] = entities[i]
                /\ (distance < 20 * Scale /\ v # Zero) =>
                      NormSq(entities'[i].velocity) < NormSq(v)
                /\ entities'[i].position = entities[i].position
                /\ entities'[i].anchor = entities[i].anchor
      ]_vars

\* C9: applyMouseDamping has run on an entity less than 20 pixels from the
\* mouse, which still moves.
C9_Witness ==
    /\ step = "applyMouseDamping"
    /\ \E i \in DOMAIN entities :
          /\ VDist(entities[i].position, MousePoint) < 20 * Scale
          /\ entities[i].velocity # Zero

\* C10: in a step with the mouse absent, before and after, an entity at rest
\* stays at rest.
C10_RestIsFixed ==
    [][(/\ MousePosition(mouse.x, mouse.y, window'.width, window'.height) = << >>
        /\ mouse' = mouse) =>
          \A i \in DOMAIN entities \cap DOMAIN entities' :
             AtRest(entities[i]) => AtRest(entities'[i])
      ]_vars

\* C10: frames have been drawn with the mouse absent and every entity is at
\* rest.
C10_Witness ==
    /\ step = "draw"
    /\ frameCount >= 2
    /\ mouse = [x |-> 0, y |-> 0]
    /\ \A i \in DOMAIN entities : AtRest(entities[i])

\* The anchors of all entities.
Anchors(ents) == [i \in DOMAIN ents |-> ents[i].anchor]

\* C11: the anchor of an entity never changes: every step but p.setup and
\* the debounced createEntities, which make new entities, leaves the anchor
\* of each entity as it was, also in a frame that moves the entity.
C11_AnchorFixed ==
    [][step' \notin {"setup", "createEntities"} =>
          Anchors(entities') = Anchors(entities)]_vars

\* C11: a frame has been drawn and has moved an entity off its anchor.
C11_Witness ==
    /\ step = "draw"
    /\ \E i \in DOMAIN entities :
          /\ ~entities[i].position.nan
          /\ entities[i].position # entities[i].anchor

\* C15: in a frame, for every entity, the velocity becomes the old velocity
\* plus the gravity toward the mouse (if the mouse is present) plus the
\* elasticity toward the anchor, then times the anchor damping factor, then
\* times the mouse damping factor (if the mouse is present), all four taken
\* at the position the entity had before the frame; and the position becomes
\* the old position plus that new velocity, once.
C15_FrameOrder ==
    [][frameCount' # frameCount =>
          LET m == MousePosition(mouse.x, mouse.y, window'.width, window'.height)
          IN \A i \in DOMAIN entities :
                LET e == entities[i]
                    g == IF m # << >> THEN calculateGravity(e.position, m[1])
                                      ELSE Zero
                    el == calculateElasticity(e.position, e.anchor)
                    v2 == VAdd(VAdd(e.velocity, g), el)
                    v3 == applyAnchorDamping([e EXCEPT !.velocity = v2]).velocity
                    v4 == IF m # << >>
                          THEN applyMouseDamping([e EXCEPT !.velocity = v3],
                                                 m[1]).velocity
                          ELSE v3
                IN /\ DOMAIN entities' = DOMAIN entities
                   /\ entities'[i].velocity = v4
                   /\ entities'[i].position = VAdd(e.position, v4)
      ]_vars

\* C15: a second frame has been drawn with the mouse present, on entities
\* that the first frame had set moving.
C15_Witness ==
    /\ step = "draw"
    /\ frameCount >= 2
    /\ MousePosition(mouse.x, mouse.y, window.width, window.height) # << >>
    /\ \E i \in DOMAIN entities :
          /\ entities[i].velocity # Zero
          /\ entities[i].position # entities[i].anchor

\* C16: a rebuild, in p.setup or when the debounce's timeout runs, paused or
\* not, leaves exactly the grid createEntities() makes, whatever the
\* entities were before: columns * rows entities, each on its anchor with
\* velocity 0.
C16_RebuildIsFresh ==
    [][step' \in {"setup", "createEntities"} =>
          /\ entities' = createEntities
          /\ Len(entities') = columns * rows
          /\ \A i \in DOMAIN entities' : AtRest(entities'[i])
      ]_vars

\* C16: the debounced rebuild has run while the loop is paused, after the
\* two frames that moved the entities.
C16_Witness ==
    /\ step = "createEntities"
    /\ setupDone
    /\ ~looping
    /\ frameCount >= 2
    /\ mouse = [x |-> 33, y |-> 24]

\* Each component of a force is a number from -max to max pixels.
WithinAxes(f, max) ==
    /\ ~f.nan
    /\ Abs(f.x) <= max * Scale
    /\ Abs(f.y) <= max * Scale

\* C13, as stated: for all points, each component of the vector
\* calculateGravity returns is within -maxGravForce..maxGravForce and each
\* component of the vector calculateElasticity returns is within
\* -maxEllasticForce..maxEllasticForce.
C13_ForcesWithinAxes ==
    /\ step = "calculateGravity" => WithinAxes(force, maxGravForce)
    /\ step = "calculateElasticity" => WithinAxes(force, maxEllasticForce)

\* C18: the function a run's promise resolved with has been called once if
\* the run is cancelled and not at all if it is not, whichever came first;
\* nothing is called for a run whose promise is pending, resolved with
\* nothing or rejected; and a call is never taken back.
C18_CleanupOnce ==
    /\ [](\A i \in DOMAIN runs :
             runs[i].calls = IF runs[i].promise = "cleanup" /\ runs[i].cancelled
                             THEN 1 ELSE 0)
    /\ [][\A i \in DOMAIN runs : runs'[i].calls >= runs[i].calls]_vars

\* C18: the promise of a run resolved with a function after the run was
\* cancelled, and the function was called then.
C18_Witness ==
    /\ step = "then"
    /\ Len(runs) = 1
    /\ runs[1].cancelled
    /\ runs[1].promise = "cleanup"
    /\ runs[1].calls = 1

\* A sketch that is executing frames: set up, and its loop not paused.
Executing(sk) == sk.setupDone /\ sk.looping

\* C14, as stated: when the pause effect has run for the present isVisible
\* and isStagnant, the loop of the mounted component's sketch, once set up,
\* runs exactly when the element is visible and the mouse is not stagnant,
\* also when the effect ran before p.setup.
C14_LoopFollowsSignals ==
    (/\ mounted
     /\ effectDeps = DepsOf(IsPaused(isVisible, isStagnant))
     /\ sketches[Len(sketches)].setupDone)
        => (sketches[Len(sketches)].looping <=> ~IsPaused(isVisible, isStagnant))

\* C17, as stated: at most one sketch is executing frames, and the module's
\* pauseFn and resumeFn are those of every sketch that is.
C17_OneSketchControlled ==
    /\ Cardinality({i \in DOMAIN sketches : Executing(sketches[i])}) <= 1
    /\ \A i \in DOMAIN sketches : Executing(sketches[i]) => slotOwner = i

====
